---- MODULE Spec2Model ----
(***************************************************************************)
(* Contextual re-embedding scripts of archive/archon-kb-work:              *)
(* the contextualizers, the embedding call, the store updates and the      *)
(* batch loops of reembed_archon.py, reembed_all_project_docs.py,          *)
(* fix_search_properly_final.py, archon_reembedding_plan.py and            *)
(* final_fix_rest_api.py.                                                  *)
(***************************************************************************)
EXTENDS Integers, Sequences, FiniteSets, TLC

(***************************************************************************)
(* Bounds of the model.                                                    *)
(***************************************************************************)
\* number of chunk rows in archon_crawled_pages
MaxChunks == 2
\* number of words in a display name drawn for the contextualizer
MaxNameWords == 2
\* length of a short chunk content, in characters
ShortLen == 5
\* by how many characters a long content exceeds the [:8000] slice
OverBy == 3

(***************************************************************************)
(* Strings.  A Python str is a sequence of segments; a segment is the      *)
(* substring of length len at offset off of the string named (src, id).    *)
(* Literals of the source have id 0 and their real length; the content of  *)
(* chunk k has src "content" and id k.  The empty string is <<>>.          *)
(***************************************************************************)
Lit(tag, n) == IF n = 0 THEN <<>> ELSE <<[src |-> tag, id |-> 0, off |-> 0, len |-> n]>>

ContentOf(k, n) == IF n = 0 THEN <<>> ELSE <<[src |-> "content", id |-> k, off |-> 0, len |-> n]>>

RECURSIVE StrLen(_)
StrLen(t) == IF t = <<>> THEN 0 ELSE Head(t).len + StrLen(Tail(t))

\* t[:n]
RECURSIVE Slice(_, _)
Slice(t, n) ==
    IF t = <<>> \/ n <= 0 THEN <<>>
    ELSE IF Head(t).len <= n THEN <<Head(t)>> \o Slice(Tail(t), n - Head(t).len)
    ELSE <<[Head(t) EXCEPT !.len = n]>>

\* t starts with p (p is a whole-segment prefix of t)
StartsWith(t, p) == Len(p) <= Len(t) /\ SubSeq(t, 1, Len(p)) = p

\* t ends with s
EndsWith(t, s) == Len(s) <= Len(t) /\ SubSeq(t, Len(t) - Len(s) + 1, Len(t)) = s

(***************************************************************************)
(* Display names and source URLs are sequences of words; Python's          *)
(* `marker in s` holds when the marker occurs in one of the words (no      *)
(* marker of the source spans two of these words).                         *)
(***************************************************************************)
NameWords == {"PRD.md", "CLAUDE.md", "knowledge_base_roofing", "roofing_industry_apis",
              "TWILIO", "ESIGNING", "Roofing", "notes"}

\* <<marker, word>>: marker is a substring of word
Occurs == { <<"PRD.md", "PRD.md">>, <<"CLAUDE.md", "CLAUDE.md">>,
            <<"knowledge_base_roofing", "knowledge_base_roofing">>,
            <<"roofing_industry_apis", "roofing_industry_apis">>,
            <<"TWILIO", "TWILIO">>, <<"ESIGNING", "ESIGNING">>,
            <<"PRD", "PRD.md">>, <<"CLAUDE", "CLAUDE.md">>,
            <<"knowledge_base", "knowledge_base_roofing">>,
            <<"file://", "file://">> }

\* <<marker, word>>: marker is a substring of word.lower()
OccursLower == { <<"roofing", "knowledge_base_roofing">>, <<"roofing", "roofing_industry_apis">>,
                 <<"roofing", "Roofing">>, <<"prd", "PRD.md">>, <<"claude", "CLAUDE.md">>,
                 <<"knowledge", "knowledge_base_roofing">> }

\* marker in s
In(marker, s) == \E i \in 1..Len(s) : <<marker, s[i]>> \in Occurs

\* marker in s.lower()
InLower(marker, s) == \E i \in 1..Len(s) : <<marker, s[i]>> \in OccursLower

(***************************************************************************)
(* Contextualizers.  Each returns the f-string of the first branch whose   *)
(* marker occurs in the display name.                                      *)
(***************************************************************************)
reembed_archon_prefix ==
    [PRD      |-> Lit("Project Requirements Document for Tennessee Roofing SaaS Platform: ", 67),
     CLAUDE   |-> Lit("Developer Implementation Guide for Roofing Project: ", 52),
     KB       |-> Lit("Roofing Industry Technical Knowledge Base: ", 43),
     APIS     |-> Lit("Roofing Industry API Integration Documentation: ", 48),
     TWILIO   |-> Lit("Twilio SMS Implementation Guide for Roofing Project: ", 53),
     ESIGNING |-> Lit("E-Signature Options for Roofing Contracts: ", 43),
     DEFAULT  |-> Lit("Project Documentation: ", 23)]

\* the same branches without the final else: the content is returned as it is
reembed_archon_without_default(chunk) ==
    LET content == chunk.content
        display_name == chunk.source_display_name
    IN  IF In("PRD.md", display_name) THEN reembed_archon_prefix.PRD \o content
        ELSE IF In("CLAUDE.md", display_name) THEN reembed_archon_prefix.CLAUDE \o content
        ELSE IF In("knowledge_base_roofing", display_name) THEN reembed_archon_prefix.KB \o content
        ELSE IF In("roofing_industry_apis", display_name) THEN reembed_archon_prefix.APIS \o content
        ELSE IF In("TWILIO", display_name) THEN reembed_archon_prefix.TWILIO \o content
        ELSE IF In("ESIGNING", display_name) THEN reembed_archon_prefix.ESIGNING \o content
        ELSE content

\* the same branches with 'CLAUDE.md' tested before 'PRD.md'
reembed_archon_claude_first(chunk) ==
    LET content == chunk.content
        display_name == chunk.source_display_name
    IN  IF In("CLAUDE.md", display_name) THEN reembed_archon_prefix.CLAUDE \o content
        ELSE IF In("PRD.md", display_name) THEN reembed_archon_prefix.PRD \o content
        ELSE IF In("knowledge_base_roofing", display_name) THEN reembed_archon_prefix.KB \o content
        ELSE IF In("roofing_industry_apis", display_name) THEN reembed_archon_prefix.APIS \o content
        ELSE IF In("TWILIO", display_name) THEN reembed_archon_prefix.TWILIO \o content
        ELSE IF In("ESIGNING", display_name) THEN reembed_archon_prefix.ESIGNING \o content
        ELSE reembed_archon_prefix.DEFAULT \o content

reembed_archon_create_contextual_content(chunk) ==
    LET content == chunk.content
        display_name == chunk.source_display_name
    IN  IF In("PRD.md", display_name) THEN reembed_archon_prefix.PRD \o content
        ELSE IF In("CLAUDE.md", display_name) THEN reembed_archon_prefix.CLAUDE \o content
        ELSE IF In("knowledge_base_roofing", display_name) THEN reembed_archon_prefix.KB \o content
        ELSE IF In("roofing_industry_apis", display_name) THEN reembed_archon_prefix.APIS \o content
        ELSE IF In("TWILIO", display_name) THEN reembed_archon_prefix.TWILIO \o content
        ELSE IF In("ESIGNING", display_name) THEN reembed_archon_prefix.ESIGNING \o content
        ELSE reembed_archon_prefix.DEFAULT \o content

reembed_all_prefix ==
    [PRD     |-> Lit("Project Requirements Document (PRD) for Tennessee Roofing SaaS Platform. ... Content: ", 262),
     CLAUDE  |-> Lit("Developer Implementation Guide for Tennessee Roofing SaaS Project. ... Content: ", 248),
     KB      |-> Lit("Technical Knowledge Base for Roofing Industry Platform Development. ... Content: ", 258),
     APIS    |-> Lit("Roofing Industry API Integration Documentation. ... Content: ", 227),
     DEFAULT |-> Lit("Tennessee Roofing Project Documentation: ", 41)]

reembed_all_create_contextual_content(chunk) ==
    LET content == chunk.content
        display_name == chunk.source_display_name
    IN  IF In("PRD.md", display_name) THEN reembed_all_prefix.PRD \o content
        ELSE IF In("CLAUDE.md", display_name) THEN reembed_all_prefix.CLAUDE \o content
        ELSE IF In("knowledge_base_roofing", display_name) THEN reembed_all_prefix.KB \o content
        ELSE IF In("roofing_industry_apis", display_name) THEN reembed_all_prefix.APIS \o content
        ELSE reembed_all_prefix.DEFAULT \o content

\* the text after {content} in the triple-quoted templates: "\n" and 8 spaces
TemplateTail == Lit("\n        ", 9)

fix_embeddings_prefix ==
    [PRD     |-> Lit("\n        PROJECT REQUIREMENTS DOCUMENT (PRD) ... ACTUAL CONTENT: ", 1225),
     CLAUDE  |-> Lit("\n        DEVELOPER IMPLEMENTATION GUIDE - CLAUDE.md ... ACTUAL CONTENT: ", 947),
     KB      |-> Lit("\n        TECHNICAL KNOWLEDGE BASE ... ACTUAL CONTENT: ", 1163),
     APIS    |-> Lit("\n        ROOFING INDUSTRY API INTEGRATION DOCUMENTATION. ... ACTUAL CONTENT: ", 1152),
     DEFAULT |-> Lit("\n        TENNESSEE ROOFING PROJECT DOCUMENTATION. ... implementation.\n        ", 191)]

create_AGGRESSIVE_contextual_content(chunk) ==
    LET content == chunk.content
        display_name == chunk.source_display_name
    IN  IF In("PRD.md", display_name) THEN fix_embeddings_prefix.PRD \o content \o TemplateTail
        ELSE IF In("CLAUDE.md", display_name) THEN fix_embeddings_prefix.CLAUDE \o content \o TemplateTail
        ELSE IF In("knowledge_base_roofing", display_name) THEN fix_embeddings_prefix.KB \o content \o TemplateTail
        ELSE IF In("roofing_industry_apis", display_name) THEN fix_embeddings_prefix.APIS \o content \o TemplateTail
        ELSE fix_embeddings_prefix.DEFAULT \o content \o TemplateTail

\* base_context of create_MAXIMUM_contextual_content
base_context == Lit("\n    Tennessee Roofing Company Project Documentation. ... low-code automation.\n    ", 252)

\* the text of each enhanced template between {base_context} and {content}
fix_search_keywords ==
    [PRD    |-> Lit("\n        PROJECT REQUIREMENTS DOCUMENT PRD.md ... ACTUAL CONTENT: ", 1248),
     CLAUDE |-> Lit("\n        CLAUDE.md Developer Implementation Guide ... ACTUAL CONTENT: ", 790),
     KB     |-> Lit("\n        Technical Knowledge Base for Roofing Industry ... ACTUAL CONTENT: ", 867),
     APIS   |-> Lit("\n        Roofing Industry API Integration Documentation. ... ACTUAL CONTENT: ", 899)]

create_MAXIMUM_contextual_content(chunk) ==
    LET content == chunk.content
        display_name == chunk.source_display_name
    IN  IF In("PRD.md", display_name)
            THEN TemplateTail \o base_context \o fix_search_keywords.PRD \o content \o TemplateTail
        ELSE IF In("CLAUDE.md", display_name)
            THEN TemplateTail \o base_context \o fix_search_keywords.CLAUDE \o content \o TemplateTail
        ELSE IF In("knowledge_base_roofing", display_name)
            THEN TemplateTail \o base_context \o fix_search_keywords.KB \o content \o TemplateTail
        ELSE IF In("roofing_industry_apis", display_name)
            THEN TemplateTail \o base_context \o fix_search_keywords.APIS \o content \o TemplateTail
        ELSE base_context \o Lit(" ", 1) \o content

plan_prefix ==
    [PRD     |-> Lit("Project Requirements Document (PRD): ", 37),
     CLAUDE  |-> Lit("Project Implementation Guide: ", 30),
     KB      |-> Lit("Technical Knowledge Base: ", 26),
     ROOFING |-> Lit("Roofing Industry Documentation: ", 32),
     DEFAULT |-> Lit("Project Documentation: ", 23)]

plan_create_contextual_content(chunk) ==
    LET content == chunk.content
    IN  IF In("file://", chunk.source_url)
        THEN IF In("PRD", chunk.source_display_name) THEN plan_prefix.PRD \o content
             ELSE IF In("CLAUDE", chunk.source_display_name) THEN plan_prefix.CLAUDE \o content
             ELSE IF In("knowledge_base", chunk.source_display_name) THEN plan_prefix.KB \o content
             ELSE IF InLower("roofing", chunk.source_display_name) THEN plan_prefix.ROOFING \o content
             ELSE plan_prefix.DEFAULT \o content
        ELSE content

searchable_prefix ==
    [PRD    |-> Lit("[SEARCHABLE: PRD Project Requirements Document ... gamification]\n\n        ", 246),
     CLAUDE |-> Lit("[SEARCHABLE: Claude Code developer implementation guide ... schema]\n\n        ", 176),
     KB     |-> Lit("[SEARCHABLE: roofing knowledge base technical ... contractor]\n\n        ", 174),
     APIS   |-> Lit("[SEARCHABLE: roofing APIs EagleView ... Tennessee]\n\n        ", 140)]

create_searchable_content(chunk) ==
    LET original_content == chunk.content
        display_name == chunk.source_display_name
        search_prefix ==
            IF In("PRD.md", display_name) THEN searchable_prefix.PRD
            ELSE IF In("CLAUDE.md", display_name) THEN searchable_prefix.CLAUDE
            ELSE IF In("knowledge_base_roofing", display_name) THEN searchable_prefix.KB
            ELSE IF In("roofing_industry_apis", display_name) THEN searchable_prefix.APIS
            ELSE <<>>
    IN  search_prefix \o original_content

\* the f-string of test_reembed_simple.generate_contextual_embedding
simple_prefix == Lit("Project Requirements Document for Tennessee Roofing SaaS Platform. ... Content: ", 213)

generate_contextual_embedding_text(chunk) == simple_prefix \o chunk.content

\* the scripts, named by their files
Scripts == {"reembed_archon", "reembed_all_project_docs", "fix_search_properly_final",
            "archon_reembedding_plan", "final_fix_rest_api", "test_reembed_simple"}

\* the contextualizers, named by their files
Variants == Scripts \cup {"fix_embeddings_properly"}

\* the contextualizer each file defines
Contextualize(variant, chunk) ==
    CASE variant = "reembed_archon" -> reembed_archon_create_contextual_content(chunk)
      [] variant = "reembed_all_project_docs" -> reembed_all_create_contextual_content(chunk)
      [] variant = "fix_embeddings_properly" -> create_AGGRESSIVE_contextual_content(chunk)
      [] variant = "fix_search_properly_final" -> create_MAXIMUM_contextual_content(chunk)
      [] variant = "archon_reembedding_plan" -> plan_create_contextual_content(chunk)
      [] variant = "final_fix_rest_api" -> create_searchable_content(chunk)
      [] variant = "test_reembed_simple" -> generate_contextual_embedding_text(chunk)


(***************************************************************************)
(* The embedding provider and the store's derived columns.  The provider   *)
(* is deterministic and a vector is identified by the text it was computed *)
(* from (the most discriminating provider); to_tsvector likewise.          *)
(***************************************************************************)
NULL == [isnull |-> TRUE]

\* the embedding model the script is configured with
VARIABLE EMBEDDING_MODEL

\* EMBEDDING_MODEL = os.getenv('EMBEDDING_MODEL', 'text-embedding-3-small')
DefaultModel == "text-embedding-3-small"

Models == {"text-embedding-3-small", "text-embedding-3-large"}

\* the scripts that read the model name from the environment (the others
\* assign the constant 'text-embedding-3-small')
EnvScripts == {"reembed_archon", "reembed_all_project_docs", "test_reembed_simple"}

\* the length of the vectors a model returns
Dimension(model) == IF model = "text-embedding-3-large" THEN 3072 ELSE 1536

\* the length of the vectors ingestion stored
D == Dimension(DefaultModel)

\* the vector ingestion computed for a text
IngestedVector(text) == [isnull |-> FALSE, input |-> text, dims |-> D]

\* the provider's answer: response.data[0].embedding
Vector(text) == [isnull |-> FALSE, input |-> text, dims |-> Dimension(EMBEDDING_MODEL)]

to_tsvector(text) == [isnull |-> FALSE, input |-> text]

\* the slice every generate_embedding applies to its input: text[:8000]
MAX_INPUT_CHARS == 8000

\* t[-n:]
RECURSIVE LastChars(_, _)
LastChars(t, n) ==
    IF t = <<>> \/ n <= 0 THEN <<>>
    ELSE IF StrLen(t) <= n THEN t
    ELSE IF StrLen(Tail(t)) >= n THEN LastChars(Tail(t), n)
    ELSE <<[Head(t) EXCEPT !.off = Head(t).off + StrLen(t) - n,
                           !.len = n - StrLen(Tail(t))]>> \o Tail(t)

\* an embedding call that keeps the last 8000 characters: input=text[-8000:]
generate_embedding_last_chars(text) == Vector(LastChars(text, MAX_INPUT_CHARS))

\* an embedding call that refuses a text longer than 8000 characters and
\* sends any other text as it is
generate_embedding_rejecting(text) ==
    IF StrLen(text) > MAX_INPUT_CHARS THEN NULL ELSE Vector(text)

\* client.embeddings.create(model=EMBEDDING_MODEL, input=text[:8000]).data[0].embedding
generate_embedding(text) == Vector(Slice(text, MAX_INPUT_CHARS))

\* archon_reembedding_plan.generate_embedding sends the text unsliced
plan_generate_embedding(text) == Vector(text)

(***************************************************************************)
(* The store: archon_sources and archon_crawled_pages.                     *)
(***************************************************************************)
\* archon_sources rows; rank is the position of the display name in ORDER BY
Sources ==
    << [source_url |-> <<"file://", "docs", "PRD.md">>,
        source_display_name |-> <<"PRD.md">>, rank |-> 2],
       [source_url |-> <<"file://", "knowledge_base_roofing", "CLAUDE.md">>,
        source_display_name |-> <<"CLAUDE.md">>, rank |-> 1],
       [source_url |-> <<"https://", "docs">>,
        source_display_name |-> <<"docs">>, rank |-> 3] >>

ChunkIds == 1..MaxChunks

ContentLens == {ShortLen, MAX_INPUT_CHARS + OverBy}

\* a row of archon_crawled_pages as ingestion leaves it: the embedding, when present,
\* and the search vector are computed from the raw content
NewRow(k, sid, n, embedded) ==
    [source_id |-> sid,
     chunk_number |-> MaxChunks + 1 - k,
     content |-> ContentOf(k, n),
     embedding |-> IF embedded THEN IngestedVector(Slice(ContentOf(k, n), MAX_INPUT_CHARS)) ELSE NULL,
     content_search_vector |-> to_tsvector(ContentOf(k, n))]

\* the dict a SELECT ... JOIN archon_sources returns for row k
Fetched(st, k) ==
    [id |-> k,
     content |-> st[k].content,
     chunk_number |-> st[k].chunk_number,
     source_url |-> Sources[st[k].source_id].source_url,
     source_display_name |-> Sources[st[k].source_id].source_display_name]

\* url LIKE 'file://%.md'
LikeFileMd(url) == url[1] = "file://" /\ url[Len(url)] \in {"PRD.md", "CLAUDE.md"}

\* the sequences ORDER BY key may return for the rows S: every arrangement of S
\* ascending in key (the order of rows with equal keys is the executor's)
RECURSIVE Orderings(_, _)
Orderings(S, key) ==
    IF S = {} THEN {<<>>}
    ELSE UNION {{<<m>> \o q : q \in Orderings(S \ {m}, key)} :
                   m \in {x \in S : \A y \in S : key[x] <= key[y]}}

\* ORDER BY s.source_display_name, cp.chunk_number
ByNameThenNumber(st) ==
    [k \in DOMAIN st |-> Sources[st[k].source_id].rank * (MaxChunks + 1) + st[k].chunk_number]

\* [f(s[1]), ..., f(s[n])] for a sequence s of ids
Rows(st, ids) == [j \in 1..Len(ids) |-> Fetched(st, ids[j])]

\* reembed_archon.get_project_docs
get_project_docs(st) ==
    LET url(k) == Sources[st[k].source_id].source_url
        sel == {k \in DOMAIN st : /\ LikeFileMd(url(k))
                                  /\ \/ InLower("prd", url(k))
                                     \/ InLower("claude", url(k))
                                     \/ InLower("roofing", url(k))
                                     \/ InLower("knowledge", url(k))}
    IN  {Rows(st, q) : q \in Orderings(sel, ByNameThenNumber(st))}

\* the SELECT of fix_search_properly_final.fix_everything
fix_everything_select(st) ==
    LET url(k) == Sources[st[k].source_id].source_url
        sel == {k \in DOMAIN st : /\ LikeFileMd(url(k))
                                  /\ \/ In("PRD.md", url(k))
                                     \/ In("CLAUDE.md", url(k))
                                     \/ In("knowledge_base_roofing", url(k))
                                     \/ In("roofing_industry_apis", url(k))}
    IN  {Rows(st, q) : q \in Orderings(sel, ByNameThenNumber(st))}

doc_patterns == <<"PRD.md", "CLAUDE.md", "knowledge_base_roofing", "roofing_industry_apis">>

\* one GET per pattern, "order": "chunk_number", the result sets concatenated
RECURSIVE get_project_documents_from(_, _)
get_project_documents_from(st, p) ==
    IF p > Len(doc_patterns) THEN {<<>>}
    ELSE LET sel == {k \in DOMAIN st : In(doc_patterns[p], Sources[st[k].source_id].source_url)}
         IN  {Rows(st, q) \o rest : q \in Orderings(sel, [k \in DOMAIN st |-> st[k].chunk_number]),
                                    rest \in get_project_documents_from(st, p + 1)}

\* get_project_documents of reembed_all_project_docs and final_fix_rest_api
\* (every GET answers 200)
get_project_documents(st) == get_project_documents_from(st, 1)

\* archon_reembedding_plan.get_chunks_to_embed(source_filter=None): ORDER BY cp.id
get_chunks_to_embed(st) == {Rows(st, q) : q \in Orderings(DOMAIN st, [k \in DOMAIN st |-> k])}

\* test_reembed_simple.get_prd_content: one GET, like.%PRD.md%, "order": "chunk_number"
get_prd_content(st) ==
    LET sel == {k \in DOMAIN st : In("PRD.md", Sources[st[k].source_id].source_url)}
    IN  {Rows(st, q) : q \in Orderings(sel, [k \in DOMAIN st |-> st[k].chunk_number])}

\* the chunk lists the fetch of each script may return
Select(s, st) ==
    CASE s = "reembed_archon" -> get_project_docs(st)
      [] s = "fix_search_properly_final" -> fix_everything_select(st)
      [] s = "archon_reembedding_plan" -> get_chunks_to_embed(st)
      [] s = "test_reembed_simple" -> get_prd_content(st)
      [] OTHER -> get_project_documents(st)


(***************************************************************************)
(* State.                                                                  *)
(***************************************************************************)
VARIABLES
    script,              \* the script that runs
    store,               \* archon_crawled_pages as committed: what any reader sees
    store0,              \* the table before the first run
    chunks,              \* the fetched chunk list
    pc,                  \* position of the script
    i,                   \* index in chunks of the chunk in progress (1-based)
    contextual_content,  \* contextual_content / enhanced_content / new_content
    embedding,           \* embedding of the chunk in progress
    txn,                 \* statements executed on the connection and not yet committed
    success,             \* success / success_count
    failed,              \* failed / error_count
    failLog,             \* chunk ids printed by the failure messages
    acked,               \* chunk ids whose update the store acknowledged, in order
    attempted,           \* chunk ids that entered the loop body, in order
    rerun,               \* TRUE in the second invocation of the script
    afterFirst,          \* the table, the acknowledged ids and the processing order of the first run
    seen,                \* the row a concurrent reader has just fetched
    sinceCall,           \* what followed the last embedding provider call of the run
    lastCall,            \* the last call of the embedding generator
    confirmation,        \* response.lower() of the "(y/n)" prompt, "none" when not asked
    ctxVariant,          \* the contextualizer applied on its own
    ctxIn,               \* its argument
    ctxOut,              \* its result
    match_count,         \* the match_count of a search
    distance,            \* cp.embedding <=> query_embedding of every embedded row
    candidates,          \* the ids of the rows the candidate query returned, in order
    reranked,            \* what rerank_results, and so enhanced_rag_search, returns
    documents,           \* the list rerank_results was called with, as the call leaves it
    top_n,               \* the top_n rerank_results was called with
    response,            \* the call of the reranking provider
    searchPc,            \* position of the search
    initialized,         \* .archon_project.json exists, is valid and says initialized
    max_iterations,      \* the max_iterations argument, 0 for None
    is_first_run,        \* the flag of run_autonomous_agent
    iteration,           \* its session counter
    prompt,              \* the prompt of the last session started
    status,              \* the status the last session returned
    agentPc              \* position of run_autonomous_agent

batchVars == <<script, EMBEDDING_MODEL, confirmation, store, store0, chunks, pc, i, contextual_content, embedding, txn,
               success, failed, failLog, acked, attempted, rerun, afterFirst, seen,
               sinceCall, lastCall>>

ctxVars == <<ctxVariant, ctxIn, ctxOut>>

searchVars == <<match_count, distance, candidates, reranked, documents, top_n, response, searchPc>>

agentVars == <<initialized, max_iterations, is_first_run, iteration, prompt, status, agentPc>>

vars == <<batchVars, ctxVars, searchVars, agentVars>>

NoText == <<>>

NotSeen == [id |-> 0]

NoSnapshot == [taken |-> FALSE]

\* the scripts that go through a psycopg2 connection (the others PATCH the REST API)
Psycopg2Scripts == {"reembed_archon", "fix_search_properly_final", "archon_reembedding_plan"}

\* the scripts that ask "(y/n)" before the loop
GatedScripts == {"reembed_archon", "reembed_all_project_docs", "final_fix_rest_api",
                 "test_reembed_simple"}

\* what input() may return
Answers == {"y", "Y", "n", "yes"}

\* response.lower()
Lower(a) == IF a = "Y" THEN "y" ELSE a

Running == pc \in {"ctx", "embed", "update", "update2", "commit", "rollback"}

Cur == chunks[i]

\* the contextualizer is not in use while a script runs
NotCalled == [called |-> FALSE, text |-> NoText]

CtxIdle == ctxVariant = "none" /\ ctxIn = [content |-> NoText] /\ ctxOut = NotCalled

\* run_autonomous_agent is not running
AgentIdle ==
    /\ initialized = FALSE
    /\ max_iterations = 0
    /\ is_first_run = FALSE
    /\ iteration = 0
    /\ prompt = "none"
    /\ status = "none"
    /\ agentPc = "off"

\* no search is made while a script runs
SearchIdle ==
    /\ match_count = 0
    /\ distance = <<>>
    /\ candidates = <<>>
    /\ reranked = <<>>
    /\ documents = <<>>
    /\ top_n = 0
    /\ response = [called |-> FALSE]
    /\ searchPc = "off"

\* no call of the embedding generator yet
NoCall == [attempts |-> 0, error |-> "none", returned |-> "nothing"]

\* the errors the provider raises: timeout, 5xx, 429 / auth failure, malformed input
ErrorKinds == {"transient", "non-transient"}

\* an embedding generator that calls the provider a second time after a
\* transient error
ProviderAttemptsRetrying(error) == IF error = "transient" THEN 2 ELSE 1

\* the number of client.embeddings.create calls one call of the embedding
\* generator makes when the provider answers with error (or "none"): the try
\* holds one call and the handler does not call again
ProviderAttempts(error) == 1

\* what the embedding generator hands to the loop after an error: the handler
\* of generate_embedding prints and returns None; test_reembed_simple and
\* fix_everything have no function-level handler and the exception reaches the loop
ReturnedOnError ==
    IF script \in {"test_reembed_simple", "fix_search_properly_final"} THEN "exception" ELSE "None"

\* whether time.sleep is reached at the end of an iteration that ended with
\* outcome "ok", "embed failed", "update failed" (False returned, or rolled
\* back) or "update raised" (exception out of the REST call)
SleepsAfter(outcome) ==
    CASE script \in {"reembed_archon", "archon_reembedding_plan"} -> TRUE
      [] script = "fix_search_properly_final" -> FALSE
      [] script \in {"reembed_all_project_docs", "final_fix_rest_api"} -> outcome # "update raised"
      [] script = "test_reembed_simple" -> outcome \notin {"embed failed", "update raised"}

\* the end of an iteration
EndOfIteration(outcome) ==
    sinceCall' = IF sinceCall = "none" THEN "none"
                 ELSE IF SleepsAfter(outcome) THEN "slept" ELSE "call"

Init ==
    /\ script \in Scripts
    /\ EMBEDDING_MODEL \in IF script \in EnvScripts THEN Models ELSE {DefaultModel}
    /\ \E sids \in [ChunkIds -> 1..Len(Sources)], lens \in [ChunkIds -> ContentLens] :
           store = [k \in ChunkIds |-> NewRow(k, sids[k], lens[k], k > 1)]
    /\ store0 = store
    /\ chunks = <<>>
    /\ pc = "start"
    /\ i = 0
    /\ contextual_content = NoText
    /\ embedding = NULL
    /\ txn = <<>>
    /\ success = 0
    /\ failed = 0
    /\ failLog = <<>>
    /\ acked = <<>>
    /\ attempted = <<>>
    /\ rerun = FALSE
    /\ afterFirst = NoSnapshot
    /\ seen = NotSeen
    /\ sinceCall = "none"
    /\ lastCall = NoCall
    /\ confirmation = "none"
    /\ CtxIdle
    /\ SearchIdle
    /\ AgentIdle

(***************************************************************************)
(* The batch loops.                                                        *)
(***************************************************************************)
\* the loop moves to the next chunk, or ends and the summary is printed
NextChunk ==
    /\ contextual_content' = NoText
    /\ embedding' = NULL
    /\ txn' = <<>>
    /\ IF i < Len(chunks)
       THEN /\ i' = i + 1
            /\ pc' = "ctx"
            /\ attempted' = Append(attempted, chunks[i + 1].id)
       ELSE /\ i' = i
            /\ pc' = "done"
            /\ attempted' = attempted

\* the fetch, the `if not chunks` return and the confirmation prompt
StartRun ==
    /\ pc = "start"
    /\ seen' = NotSeen
    /\ sinceCall' = "none" /\ lastCall' = NoCall
    /\ chunks' \in Select(script, store)
    /\ success' = 0 /\ failed' = 0 /\ failLog' = <<>> /\ acked' = <<>>
    /\ contextual_content' = NoText /\ embedding' = NULL /\ txn' = <<>>
    /\ UNCHANGED <<script, EMBEDDING_MODEL, store, store0, rerun, afterFirst, ctxVars, searchVars, agentVars>>
    /\ IF script \in GatedScripts /\ chunks' = <<>>
       THEN pc' = "nochunks" /\ i' = 0 /\ attempted' = <<>> /\ confirmation' = "none"
       ELSE \E answer \in Answers :
                /\ confirmation' = IF script \in GatedScripts THEN Lower(answer) ELSE "none"
                /\ IF script \in GatedScripts /\ Lower(answer) # "y"
                   THEN pc' = "cancelled" /\ i' = 0 /\ attempted' = <<>>
                   ELSE IF chunks' = <<>>
                        THEN pc' = "done" /\ i' = 0 /\ attempted' = <<>>
                        ELSE pc' = "ctx" /\ i' = 1 /\ attempted' = <<chunks'[1].id>>

\* create_*_content(chunk)
ContextualizeChunk ==
    /\ pc = "ctx"
    /\ seen' = NotSeen
    /\ contextual_content' = Contextualize(script, Cur)
    /\ pc' = IF script = "final_fix_rest_api" THEN "update" ELSE "embed"
    /\ UNCHANGED <<sinceCall, lastCall, script, EMBEDDING_MODEL, confirmation, store, store0, chunks, i,
                   embedding, txn, success, failed,
                   failLog, acked, attempted, rerun, afterFirst, ctxVars, searchVars, agentVars>>

\* Tally with the result of the update ignored: `if embedding:`
TallyWithoutUpdateResult(embedded, updated) ==
    IF script = "archon_reembedding_plan"
    THEN success' = success /\ failed' = failed
    ELSE IF embedded
         THEN success' = success + 1 /\ failed' = failed
         ELSE success' = success /\ failed' = failed + 1

\* counters that take every chunk for a success
TallyEveryChunk(embedded, updated) ==
    IF script = "archon_reembedding_plan"
    THEN success' = success /\ failed' = failed
    ELSE success' = success + 1 /\ failed' = failed

\* the counters after one chunk: `if embedding and update_embedding(...)`
Tally(embedded, updated) ==
    IF script = "archon_reembedding_plan"
    THEN success' = success /\ failed' = failed
    ELSE IF embedded /\ updated
         THEN success' = success + 1 /\ failed' = failed
         ELSE success' = success /\ failed' = failed + 1

\* the provider answers
EmbedOk ==
    /\ pc = "embed"
    /\ seen' = NotSeen
    /\ sinceCall' = "call"
    /\ lastCall' = [attempts |-> ProviderAttempts("none"), error |-> "none", returned |-> "vector"]
    /\ embedding' = IF script = "archon_reembedding_plan"
                    THEN plan_generate_embedding(contextual_content)
                    ELSE generate_embedding(contextual_content)
    /\ pc' = "update"
    /\ UNCHANGED <<script, EMBEDDING_MODEL, confirmation, store, store0, chunks, i, contextual_content, txn,
                   success, failed,
                   failLog, acked, attempted, rerun, afterFirst, ctxVars, searchVars, agentVars>>

\* the provider call raises: generate_embedding returns None (fix_everything: continue)
EmbedFail ==
    /\ pc = "embed"
    /\ seen' = NotSeen
    /\ \E error \in ErrorKinds :
           lastCall' = [attempts |-> ProviderAttempts(error), error |-> error,
                        returned |-> ReturnedOnError]
    /\ sinceCall' = IF SleepsAfter("embed failed") THEN "slept" ELSE "call"
    /\ Tally(FALSE, FALSE)
    /\ NextChunk
    /\ UNCHANGED <<script, EMBEDDING_MODEL, confirmation, store, store0, chunks, failLog, acked, rerun,
                   afterFirst, ctxVars, searchVars, agentVars>>


\* the table with the executed statements of a transaction applied
RECURSIVE ApplyStatements(_, _)
ApplyStatements(st, t) ==
    IF t = <<>> THEN st
    ELSE ApplyStatements(
             [st EXCEPT ![Head(t).id] = [col \in DOMAIN @ |-> IF col = Head(t).column
                                                             THEN Head(t).value ELSE @[col]]],
             Tail(t))

\* an UPDATE that appends to the stored vector instead of replacing it
ExecuteUpdateEmbeddingAccumulating(t, id, e) ==
    Append(t, [id |-> id, column |-> "embedding",
               value |-> IF store[id].embedding.isnull THEN e
                         ELSE Vector(store[id].embedding.input \o e.input)])

\* cur.execute("UPDATE archon_crawled_pages SET embedding = %s::vector WHERE id = %s")
ExecuteUpdateEmbedding(t, id, e) == Append(t, [id |-> id, column |-> "embedding", value |-> e])

\* the second UPDATE with the stored content as the to_tsvector argument
ExecuteUpdateSearchVectorFromContent(t, id, text) ==
    Append(t, [id |-> id, column |-> "content_search_vector",
               value |-> to_tsvector(store[id].content)])

\* cur.execute("UPDATE ... SET content_search_vector = to_tsvector('english', %s) WHERE id = %s")
ExecuteUpdateSearchVector(t, id, text) ==
    Append(t, [id |-> id, column |-> "content_search_vector", value |-> to_tsvector(text)])

\* what readers would see on a connection in autocommit mode
VisibleWithAutocommit(st, t) == ApplyStatements(st, t)

\* what readers see after a statement is executed on a connection opened by
\* psycopg2.connect(DATABASE_URL) (autocommit off): nothing new before the commit
VisibleAfterExecute(st, t) == st

\* a commit that makes only the first statement of the transaction visible
CommitFirstStatementOnly(st, t) == ApplyStatements(st, SubSeq(t, 1, 1))

\* conn.commit(): the statements of the transaction become visible together
CommitTxn(st, t) == ApplyStatements(st, t)

\* an exception inside the update: caught where the script has a handler
Raise ==
    IF script = "archon_reembedding_plan"
    THEN /\ pc' = "aborted"
         /\ UNCHANGED <<i, contextual_content, embedding, txn, attempted>>
    ELSE /\ pc' = "rollback"
         /\ UNCHANGED <<i, contextual_content, embedding, txn, attempted>>

\* the first UPDATE is executed
ExecEmbeddingOk ==
    /\ pc = "update"
    /\ seen' = NotSeen
    /\ script \in Psycopg2Scripts
    /\ txn' = ExecuteUpdateEmbedding(txn, Cur.id, embedding)
    /\ store' = VisibleAfterExecute(store, txn')
    /\ pc' = IF script = "fix_search_properly_final" THEN "update2" ELSE "commit"
    /\ UNCHANGED <<sinceCall, lastCall, script, EMBEDDING_MODEL, confirmation, store0, chunks, i,
                   contextual_content, embedding, success,
                   failed, failLog, acked, attempted, rerun, afterFirst, ctxVars, searchVars, agentVars>>

\* the first UPDATE raises
ExecEmbeddingFail ==
    /\ pc = "update"
    /\ seen' = NotSeen
    /\ script \in Psycopg2Scripts
    /\ Raise
    /\ UNCHANGED <<sinceCall, lastCall, script, EMBEDDING_MODEL, confirmation, store, store0, chunks, success,
                   failed, failLog, acked, rerun,
                   afterFirst, ctxVars, searchVars, agentVars>>

\* fix_everything: the second UPDATE is executed
ExecSearchVectorOk ==
    /\ pc = "update2"
    /\ seen' = NotSeen
    /\ txn' = ExecuteUpdateSearchVector(txn, Cur.id, contextual_content)
    /\ store' = VisibleAfterExecute(store, txn')
    /\ pc' = "commit"
    /\ UNCHANGED <<sinceCall, lastCall, script, EMBEDDING_MODEL, confirmation, store0, chunks, i,
                   contextual_content, embedding, success,
                   failed, failLog, acked, attempted, rerun, afterFirst, ctxVars, searchVars, agentVars>>

\* fix_everything: the second UPDATE raises
ExecSearchVectorFail ==
    /\ pc = "update2"
    /\ seen' = NotSeen
    /\ Raise
    /\ UNCHANGED <<sinceCall, lastCall, script, EMBEDDING_MODEL, confirmation, store, store0, chunks, success,
                   failed, failLog, acked, rerun,
                   afterFirst, ctxVars, searchVars, agentVars>>

\* conn.commit() returns
CommitOk ==
    /\ pc = "commit"
    /\ seen' = NotSeen
    /\ EndOfIteration("ok")
    /\ store' = CommitTxn(store, txn)
    /\ acked' = Append(acked, Cur.id)
    /\ Tally(TRUE, TRUE)
    /\ NextChunk
    /\ UNCHANGED <<lastCall, script, EMBEDDING_MODEL, confirmation, store0, chunks, failLog, rerun, afterFirst, ctxVars, searchVars, agentVars>>

\* conn.commit() raises
CommitFail ==
    /\ pc = "commit"
    /\ seen' = NotSeen
    /\ Raise
    /\ UNCHANGED <<sinceCall, lastCall, script, EMBEDDING_MODEL, confirmation, store, store0, chunks, success,
                   failed, failLog, acked, rerun,
                   afterFirst, ctxVars, searchVars, agentVars>>

\* the chunk ids the handler's message prints:
\* reembed_archon "Error updating embedding for chunk {chunk_id}", fix_everything none
LoggedIds(id) == IF script = "reembed_archon" THEN <<id>> ELSE <<>>

\* an except branch that commits what was executed instead of rolling it back
RollbackCommitting ==
    /\ pc = "rollback"
    /\ seen' = NotSeen
    /\ EndOfIteration("update failed")
    /\ failLog' = failLog \o LoggedIds(Cur.id)
    /\ Tally(TRUE, FALSE)
    /\ store' = CommitTxn(store, txn)
    /\ NextChunk
    /\ UNCHANGED <<lastCall, script, EMBEDDING_MODEL, confirmation, store0, chunks, acked, rerun,
                   afterFirst, ctxVars, searchVars, agentVars>>

\* the except branch: print, conn.rollback(), count the chunk as failed
Rollback ==
    /\ pc = "rollback"
    /\ seen' = NotSeen
    /\ EndOfIteration("update failed")
    /\ failLog' = failLog \o LoggedIds(Cur.id)
    /\ Tally(TRUE, FALSE)
    /\ NextChunk
    /\ UNCHANGED <<lastCall, script, EMBEDDING_MODEL, confirmation, store, store0, chunks, acked, rerun,
                   afterFirst, ctxVars, searchVars, agentVars>>

\* what requests.patch may do
PatchOutcomes == {"204", "other status", "exception"}

\* a PATCH that sends the contextual text as "content" beside the embedding
PatchedContentToo(row, e, text) ==
    IF script = "final_fix_rest_api"
    THEN [row EXCEPT !.content = text, !.content_search_vector = to_tsvector(text)]
    ELSE [row EXCEPT !.embedding = e, !.content = text]

\* the row after PATCH {"embedding": ...} (reembed_all_project_docs) or
\* PATCH {"content": ...} (final_fix_rest_api; the table's trigger recomputes
\* content_search_vector from the new content)
Patched(row, e, text) ==
    IF script = "final_fix_rest_api"
    THEN [row EXCEPT !.content = text, !.content_search_vector = to_tsvector(text)]
    ELSE [row EXCEPT !.embedding = e]

\* update_embedding / update_chunk_content over the REST API
Patch ==
    /\ pc = "update"
    /\ seen' = NotSeen
    /\ script \notin Psycopg2Scripts
    /\ \E outcome \in PatchOutcomes :
           /\ IF outcome = "204"
              THEN /\ store' = [store EXCEPT ![Cur.id] = Patched(@, embedding, contextual_content)]
                   /\ acked' = Append(acked, Cur.id)
              ELSE UNCHANGED <<store, acked>>
           /\ Tally(TRUE, outcome = "204")
           /\ EndOfIteration(CASE outcome = "204" -> "ok"
                               [] outcome = "other status" -> "update failed"
                               [] outcome = "exception" -> "update raised")
    /\ NextChunk
    /\ UNCHANGED <<lastCall, script, EMBEDDING_MODEL, confirmation, store0, chunks, failLog, rerun, afterFirst, ctxVars, searchVars, agentVars>>

\* the script is started again after it finished
Rerun ==
    /\ pc = "done"
    /\ ~rerun
    /\ rerun' = TRUE
    /\ afterFirst' = [taken |-> TRUE, store |-> store,
                      acked |-> {acked[j] : j \in 1..Len(acked)},
                      order |-> attempted]
    /\ pc' = "start"
    /\ chunks' = <<>> /\ i' = 0
    /\ success' = 0 /\ failed' = 0 /\ failLog' = <<>> /\ acked' = <<>> /\ attempted' = <<>>
    /\ seen' = NotSeen
    /\ sinceCall' = "none" /\ lastCall' = NoCall /\ confirmation' = "none"
    /\ UNCHANGED <<script, EMBEDDING_MODEL, store, store0, contextual_content, embedding, txn, ctxVars, searchVars, agentVars>>

\* a connection whose close commits the statements executed on it
CloseConnectionCommitting(st, t) == ApplyStatements(st, t)

\* the table after the connection goes away with the statements t executed
\* and not committed: the server rolls the open transaction back
CloseConnection(st, t) == st

\* the running script is stopped from outside (Ctrl-C, SIGTERM): no script
\* installs a signal handler or polls a flag, KeyboardInterrupt is not an
\* Exception and passes every handler of the loop, so the script stops at the
\* statement it is executing; an interrupt that lands in conn.commit() may find
\* the transaction already committed by the server
Cancel ==
    /\ Running
    /\ pc' = "interrupted"
    /\ store' \in {CloseConnection(store, txn)} \cup
                  (IF pc = "commit" THEN {CommitTxn(store, txn)} ELSE {})
    /\ UNCHANGED <<sinceCall, lastCall, script, EMBEDDING_MODEL, confirmation, store0, chunks, i,
                   contextual_content, embedding, txn, seen,
                   success, failed, failLog, acked, attempted, rerun, afterFirst, ctxVars, searchVars, agentVars>>

\* a concurrent reader fetches row k while the batch runs
Read(k) ==
    /\ Running
    /\ seen' = [id |-> k, embedding |-> store[k].embedding,
                content_search_vector |-> store[k].content_search_vector]
    /\ UNCHANGED <<sinceCall, lastCall, script, EMBEDDING_MODEL, confirmation, store, store0, chunks, pc, i,
                   contextual_content, embedding, txn,
                   success, failed, failLog, acked, attempted, rerun, afterFirst, ctxVars, searchVars, agentVars>>

\* one step of the running script
Step ==
    \/ StartRun
    \/ ContextualizeChunk
    \/ EmbedOk
    \/ EmbedFail
    \/ ExecEmbeddingOk
    \/ ExecEmbeddingFail
    \/ ExecSearchVectorOk
    \/ ExecSearchVectorFail
    \/ CommitOk
    \/ CommitFail
    \/ Rollback
    \/ Patch

\* one invocation of a script, with readers of the table running beside it
Next ==
    \/ Step
    \/ \E k \in ChunkIds : Read(k)
    \/ Cancel

Spec == Init /\ [][Next]_vars

\* a script invoked twice in succession
NextTwice ==
    \/ Step
    \/ Rerun

SpecTwice == Init /\ [][NextTwice]_vars

(***************************************************************************)
(* Two invocations over a table whose rows may share their sort key.       *)
(***************************************************************************)
\* the chunk numbers of the first chunks of a page
PageChunkNumbers == {0, 1}

\* a row as the crawlers insert it: insert_page(source_id, page_data, chunk_number)
\* numbers the chunks of every page (url) of a source from 0, so that two rows
\* of one source may carry the same chunk_number
PageRow(k, sid, n) == [NewRow(k, sid, ShortLen, TRUE) EXCEPT !.chunk_number = n]

InitOrder ==
    /\ script \in Scripts
    /\ EMBEDDING_MODEL = DefaultModel
    /\ \E sids \in [ChunkIds -> 1..Len(Sources)], nums \in [ChunkIds -> PageChunkNumbers] :
           store = [k \in ChunkIds |-> PageRow(k, sids[k], nums[k])]
    /\ store0 = store
    /\ chunks = <<>>
    /\ pc = "start"
    /\ i = 0
    /\ contextual_content = NoText
    /\ embedding = NULL
    /\ txn = <<>>
    /\ success = 0
    /\ failed = 0
    /\ failLog = <<>>
    /\ acked = <<>>
    /\ attempted = <<>>
    /\ rerun = FALSE
    /\ afterFirst = NoSnapshot
    /\ seen = NotSeen
    /\ sinceCall = "none"
    /\ lastCall = NoCall
    /\ confirmation = "none"
    /\ CtxIdle
    /\ SearchIdle
    /\ AgentIdle

SpecOrder == InitOrder /\ [][NextTwice]_vars

(***************************************************************************)
(* A contextualizer applied on its own to any chunk.                       *)
(***************************************************************************)
\* the display names: up to MaxNameWords words
RECURSIVE NamesOfLen(_)
NamesOfLen(n) ==
    IF n = 0 THEN {<<>>}
    ELSE {Append(s, w) : s \in NamesOfLen(n - 1), w \in NameWords}

DisplayNames == UNION {NamesOfLen(n) : n \in 0..MaxNameWords}

SourceUrls == {<<"file://", "docs", "PRD.md">>, <<"https://", "docs">>}

CtxInit ==
    /\ script = "reembed_archon"
    /\ EMBEDDING_MODEL = DefaultModel
    /\ store = [k \in ChunkIds |-> NewRow(k, 1, ShortLen, FALSE)]
    /\ store0 = store
    /\ chunks = <<>>
    /\ pc = "idle"
    /\ i = 0
    /\ contextual_content = NoText
    /\ embedding = NULL
    /\ txn = <<>>
    /\ success = 0
    /\ failed = 0
    /\ failLog = <<>>
    /\ acked = <<>>
    /\ attempted = <<>>
    /\ rerun = FALSE
    /\ afterFirst = NoSnapshot
    /\ seen = NotSeen
    /\ sinceCall = "none"
    /\ lastCall = NoCall
    /\ confirmation = "none"
    /\ ctxVariant \in Variants
    /\ \E n \in {0} \cup ContentLens, name \in DisplayNames, url \in SourceUrls :
           ctxIn = [id |-> 1, content |-> ContentOf(1, n), chunk_number |-> 1,
                    source_url |-> url, source_display_name |-> name]
    /\ ctxOut = NotCalled
    /\ SearchIdle
    /\ AgentIdle

\* the call create_*_content(chunk)
CtxApply ==
    /\ ~ctxOut.called
    /\ ctxOut' = [called |-> TRUE, text |-> Contextualize(ctxVariant, ctxIn)]
    /\ UNCHANGED <<batchVars, ctxVariant, ctxIn, searchVars, agentVars>>

\* generate_embedding(contextual_content) on the text the contextualizer returned
\* (archon_reembedding_plan and final_fix_rest_api have no [:8000] slice to apply)
CtxEmbed ==
    /\ ctxOut.called
    /\ pc = "idle"
    /\ ctxVariant \notin {"archon_reembedding_plan", "final_fix_rest_api"}
    /\ pc' = "embedded"
    /\ contextual_content' = ctxOut.text
    /\ embedding' = generate_embedding(ctxOut.text)
    /\ UNCHANGED <<sinceCall, lastCall, script, EMBEDDING_MODEL, confirmation, store, store0, chunks, i, txn,
                   success, failed, failLog, acked,
                   attempted, rerun, afterFirst, seen, ctxVars, searchVars, agentVars>>

CtxNext ==
    \/ CtxApply
    \/ CtxEmbed

SpecCtx == CtxInit /\ [][CtxNext]_vars

(***************************************************************************)
(* enhanced_rag_search: candidates by boosted vector distance, reranked.   *)
(***************************************************************************)
\* the rows of the table a search runs over
MaxRows == 4

RowIds == 1..MaxRows

\* match_count is any int the caller passes: a negative one, none, and one
\* whose LIMIT of 3 * match_count is below the number of rows
MatchCounts == {0 - 1, 0, 1}

\* the values of cp.embedding <=> query_embedding, in a unit of distance
\* (0: the stored vector has the direction of the query vector)
Distances == {0, 1}

\* a file:// source and a crawled one
SearchSources == {1, 3}

Min(a, b) == IF a <= b THEN a ELSE b

Max(a, b) == IF a >= b THEN a ELSE b

\* q[:n] of a list, n >= 0
First(q, n) == SubSeq(q, 1, Min(n, Len(q)))

\* CASE WHEN s.source_url LIKE 'file://%%' THEN 0.8 ELSE 1.0 END, in tenths
boost_factor(source_url) == IF source_url[1] = "file://" THEN 8 ELSE 10

\* WHERE cp.embedding IS NOT NULL (every row joins its source)
Eligible(st) == {k \in DOMAIN st : ~st[k].embedding.isnull}

\* the ORDER BY expression: (cp.embedding <=> query) * boost_factor
BoostedDistance(st, dist) ==
    [k \in DOMAIN st |-> dist[k] * boost_factor(Sources[st[k].source_id].source_url)]

\* a candidate query with LIMIT match_count
LimitWithoutOverfetch(n) == n

\* the argument of LIMIT: match_count * 3
Limit(n) == n * 3

\* the result sets the candidate query may return: the first LIMIT rows of an
\* arrangement of the eligible rows ascending in boosted distance
ranked_results(st, dist, n) ==
    {First(q, Limit(n)) : q \in Orderings(Eligible(st), BoostedDistance(st, dist))}

\* the variables of rerank_results
rerankVars == <<reranked, documents, top_n, response>>

\* the reranking provider has not been called
NotAsked == [called |-> FALSE]

\* a row of the candidate query as rerank_results receives it: a dict with no
\* rerank_score key
Document(k) == [id |-> k]

Documents(ids) == [j \in 1..Len(ids) |-> Document(ids[j])]

\* q[:n] of a list, for any int n
PySlice(q, n) == IF n >= 0 THEN First(q, n) ELSE SubSeq(q, 1, Max(Len(q) + n, 0))

\* the relevance scores a response carries, in a unit of relevance
Scores == {1, 2}

\* a rerank_results that calls the provider whatever the list holds
CallsProviderAlways(docs) == TRUE

\* `if not documents: return []`: the provider is called for a non-empty list only
CallsProvider(docs) == docs # <<>>

\* the top_n handed to the provider: min(top_n, len(documents))
ProviderTopN(docs, top) == Min(top, Len(docs))

\* doc = documents[result.index].copy(); doc['rerank_score'] = result.relevance_score
WithScore(doc, score) ==
    [f \in DOMAIN doc \cup {"rerank_score"} |-> IF f = "rerank_score" THEN score ELSE doc[f]]

\* the list built by the loop over response.results, in the order of the response
Reordered(docs, results) ==
    [j \in 1..Len(results) |-> WithScore(docs[results[j].index], results[j].relevance_score)]

\* a handler that returns the whole list
FallbackWholeList(docs, top) == docs

\* the except branch: `return documents[:top_n]`
Fallback(docs, top) == PySlice(docs, top)

\* the results a provider behaving as documented returns over n documents:
\* top distinct indexes, most relevant first
DocumentedResults(n, top) ==
    {r \in [1..top -> [index : 1..n, relevance_score : Scores]] :
        /\ \A a, b \in 1..top : a # b => r[a].index # r[b].index
        /\ \A a, b \in 1..top : a < b => r[a].relevance_score >= r[b].relevance_score}

SearchInit ==
    /\ script = "archon_reembedding_plan"
    /\ EMBEDDING_MODEL = DefaultModel
    /\ \E sids \in [RowIds -> SearchSources], embedded \in [RowIds -> BOOLEAN],
          d \in [RowIds -> Distances] :
           /\ \A k \in RowIds : ~embedded[k] => d[k] = 0
           /\ store = [k \in RowIds |->
                          IF embedded[k] THEN PageRow(k, sids[k], 0)
                          ELSE [PageRow(k, sids[k], 0) EXCEPT !.embedding = NULL]]
           /\ distance = d
    /\ store0 = store
    /\ chunks = <<>>
    /\ pc = "search"
    /\ i = 0
    /\ contextual_content = NoText
    /\ embedding = NULL
    /\ txn = <<>>
    /\ success = 0
    /\ failed = 0
    /\ failLog = <<>>
    /\ acked = <<>>
    /\ attempted = <<>>
    /\ rerun = FALSE
    /\ afterFirst = NoSnapshot
    /\ seen = NotSeen
    /\ sinceCall = "none"
    /\ lastCall = NoCall
    /\ confirmation = "none"
    /\ CtxIdle
    /\ match_count \in MatchCounts
    /\ candidates = <<>>
    /\ reranked = <<>>
    /\ documents = <<>>
    /\ top_n = 0
    /\ response = NotAsked
    /\ searchPc = "embed"
    /\ AgentIdle

\* openai_client.embeddings.create answers with the query embedding
EmbedQueryOk ==
    /\ searchPc = "embed"
    /\ searchPc' = "select"
    /\ UNCHANGED <<batchVars, ctxVars, agentVars, match_count, distance, candidates, rerankVars>>

\* the call raises: no handler, the exception leaves enhanced_rag_search
EmbedQueryRaises ==
    /\ searchPc = "embed"
    /\ searchPc' = "embedding raised"
    /\ UNCHANGED <<batchVars, ctxVars, agentVars, match_count, distance, candidates, rerankVars>>

\* cur.execute and cur.fetchall of the candidate query, and the call
\* reranker.rerank_results(query, candidates, top_n=match_count)
SelectCandidates ==
    /\ searchPc = "select"
    /\ Limit(match_count) >= 0
    /\ candidates' \in ranked_results(store, distance, match_count)
    /\ documents' = Documents(candidates')
    /\ top_n' = match_count
    /\ searchPc' = "rerank"
    /\ UNCHANGED <<batchVars, ctxVars, agentVars, match_count, distance, reranked, response>>

\* the server refuses a negative LIMIT: cur.execute raises, no handler
SelectRaises ==
    /\ searchPc = "select"
    /\ Limit(match_count) < 0
    /\ searchPc' = "select raised"
    /\ UNCHANGED <<batchVars, ctxVars, agentVars, match_count, distance, candidates, rerankVars>>

\* rerank_results: `if not documents: return []`
RerankEmpty ==
    /\ searchPc = "rerank"
    /\ ~CallsProvider(documents)
    /\ reranked' = <<>>
    /\ searchPc' = "returned"
    /\ UNCHANGED <<batchVars, ctxVars, agentVars, match_count, distance, candidates, documents, top_n, response>>

\* rerank_results: the provider answers with results; the documents are
\* copied, given their score and returned in the order of response.results
RerankOk(results) ==
    /\ searchPc = "rerank"
    /\ CallsProvider(documents)
    /\ response' = [called |-> TRUE, top_n |-> ProviderTopN(documents, top_n),
                    raised |-> FALSE, results |-> results]
    /\ reranked' = Reordered(documents, results)
    /\ searchPc' = "returned"
    /\ UNCHANGED <<batchVars, ctxVars, agentVars, match_count, distance, candidates, documents, top_n>>

\* rerank_results: the provider call raises, `return documents[:top_n]`
RerankFails ==
    /\ searchPc = "rerank"
    /\ CallsProvider(documents)
    /\ response' = [called |-> TRUE, top_n |-> ProviderTopN(documents, top_n),
                    raised |-> TRUE, results |-> <<>>]
    /\ reranked' = Fallback(documents, top_n)
    /\ searchPc' = "returned"
    /\ UNCHANGED <<batchVars, ctxVars, agentVars, match_count, distance, candidates, documents, top_n>>

SearchNext ==
    \/ EmbedQueryOk
    \/ EmbedQueryRaises
    \/ SelectCandidates
    \/ SelectRaises
    \/ RerankEmpty
    \/ \E r \in DocumentedResults(Len(documents), ProviderTopN(documents, top_n)) : RerankOk(r)
    \/ RerankFails

SpecSearch == SearchInit /\ [][SearchNext]_vars

(***************************************************************************)
(* CohereReranker.rerank_results called on its own.                        *)
(***************************************************************************)
\* the largest top_n asked for
MaxTopN == 2

\* the longest response.results
MaxResults == 2

\* top_n is any int the caller passes
TopNs == (0 - 1)..MaxTopN

\* the responses that list (index, relevance_score) pairs over n documents,
\* whatever their number and order
AnyResults(n) ==
    UNION {[1..len -> [index : 1..n, relevance_score : Scores]] : len \in 0..MaxResults}

RerankInit ==
    /\ script = "archon_reembedding_plan"
    /\ EMBEDDING_MODEL = DefaultModel
    /\ store = [k \in ChunkIds |-> NewRow(k, 1, ShortLen, FALSE)]
    /\ store0 = store
    /\ chunks = <<>>
    /\ pc = "search"
    /\ i = 0
    /\ contextual_content = NoText
    /\ embedding = NULL
    /\ txn = <<>>
    /\ success = 0
    /\ failed = 0
    /\ failLog = <<>>
    /\ acked = <<>>
    /\ attempted = <<>>
    /\ rerun = FALSE
    /\ afterFirst = NoSnapshot
    /\ seen = NotSeen
    /\ sinceCall = "none"
    /\ lastCall = NoCall
    /\ confirmation = "none"
    /\ CtxIdle
    /\ match_count = 0
    /\ distance = <<>>
    /\ candidates = <<>>
    /\ reranked = <<>>
    /\ \E n \in 0..MaxRows : documents = Documents([j \in 1..n |-> j])
    /\ top_n \in TopNs
    /\ response = NotAsked
    /\ searchPc = "rerank"
    /\ AgentIdle

RerankNext ==
    \/ RerankEmpty
    \/ \E r \in AnyResults(Len(documents)) : RerankOk(r)
    \/ RerankFails

SpecRerank == RerankInit /\ [][RerankNext]_vars

(***************************************************************************)
(* run_autonomous_agent: the session loop of the PRD harness.              *)
(***************************************************************************)
\* the sessions a run is followed for
MaxSessions == 4

\* is_archon_initialized(project_dir): the marker file loads and its
\* "initialized" entry is true
is_archon_initialized(marker) == marker

AgentInit ==
    /\ script = "reembed_archon"
    /\ EMBEDDING_MODEL = DefaultModel
    /\ store = [k \in ChunkIds |-> NewRow(k, 1, ShortLen, FALSE)]
    /\ store0 = store
    /\ chunks = <<>>
    /\ pc = "agent"
    /\ i = 0
    /\ contextual_content = NoText
    /\ embedding = NULL
    /\ txn = <<>>
    /\ success = 0
    /\ failed = 0
    /\ failLog = <<>>
    /\ acked = <<>>
    /\ attempted = <<>>
    /\ rerun = FALSE
    /\ afterFirst = NoSnapshot
    /\ seen = NotSeen
    /\ sinceCall = "none"
    /\ lastCall = NoCall
    /\ confirmation = "none"
    /\ CtxIdle
    /\ SearchIdle
    /\ initialized \in BOOLEAN
    /\ max_iterations \in 0..MaxSessions
    /\ is_first_run = FALSE
    /\ iteration = 0
    /\ prompt = "none"
    /\ status = "none"
    /\ agentPc = "start"

\* is_first_run = not is_archon_initialized(project_dir), iteration = 0
CheckInitialized ==
    /\ agentPc = "start"
    /\ is_first_run' = ~is_archon_initialized(initialized)
    /\ iteration' = 0
    /\ agentPc' = "loop"
    /\ UNCHANGED <<batchVars, ctxVars, searchVars, initialized, max_iterations, prompt, status>>

\* iteration += 1; `if max_iterations and iteration > max_iterations: break`
MaxIterationsReached ==
    /\ agentPc = "loop"
    /\ max_iterations # 0 /\ iteration + 1 > max_iterations
    /\ iteration' = iteration + 1
    /\ agentPc' = "done"
    /\ UNCHANGED <<batchVars, ctxVars, searchVars, initialized, max_iterations, is_first_run,
                   prompt, status>>

\* the prompt the flag selects, before the flag is cleared
ChosenPrompt(first) == IF first THEN "initializer" ELSE "documentation"

\* iteration += 1, the prompt is chosen and `is_first_run = False`
ChoosePrompt ==
    /\ agentPc = "loop"
    /\ ~(max_iterations # 0 /\ iteration + 1 > max_iterations)
    /\ iteration < MaxSessions
    /\ iteration' = iteration + 1
    /\ prompt' = ChosenPrompt(is_first_run)
    /\ is_first_run' = FALSE
    /\ agentPc' = "session"
    /\ UNCHANGED <<batchVars, ctxVars, searchVars, initialized, max_iterations, status>>

\* run_agent_session returns "continue" or, on an exception, "error"; an
\* initializer session may or may not have written the marker file by then
Session ==
    /\ agentPc = "session"
    /\ status' \in {"continue", "error"}
    /\ initialized' \in IF prompt = "initializer" THEN {initialized, TRUE} ELSE {initialized}
    /\ agentPc' = "loop"
    /\ UNCHANGED <<batchVars, ctxVars, searchVars, max_iterations, is_first_run, iteration, prompt>>

AgentNext ==
    \/ CheckInitialized
    \/ MaxIterationsReached
    \/ ChoosePrompt
    \/ Session

SpecAgent == AgentInit /\ [][AgentNext]_vars


(***************************************************************************)
(* Properties.                                                             *)
(***************************************************************************)
\* the ids of a sequence of ids
Ids(q) == {q[j] : j \in 1..Len(q)}

\* the ids of the fetched list
FetchedIds == {chunks[j].id : j \in 1..Len(chunks)}

\* the scripts that re-embed and print a success / failed summary
CountingReembedders == {"reembed_archon", "reembed_all_project_docs", "fix_search_properly_final"}

\* the text the running script's contextualizer gives for row k
Augmented(k) == Contextualize(script, Fetched(store0, k))

\* the embedding the running script computes for row k
NewEmbedding(k) ==
    IF script = "archon_reembedding_plan" THEN plan_generate_embedding(Augmented(k))
    ELSE generate_embedding(Augmented(k))

\* C1: a failure at any step for one chunk never aborts the batch: the loop
\* never ends by an exception, and when it ends every fetched chunk has been
\* attempted and the summary is reached.
C1_FailureNeverAborts ==
    /\ pc # "aborted"
    /\ pc = "done" => Len(attempted) = Len(chunks)

PairWriter == "fix_search_properly_final"

\* the scripts whose write sets the embedding column only
EmbeddingOnlyWriters == {"reembed_archon", "reembed_all_project_docs", "archon_reembedding_plan"}

\* row k carries the values it had before the run in both fields
BothPrevious(k) ==
    /\ store[k].embedding = store0[k].embedding
    /\ store[k].content_search_vector = store0[k].content_search_vector

\* row k carries the values of this run in both fields
BothNew(k) ==
    /\ store[k].embedding = NewEmbedding(k)
    /\ store[k].content_search_vector = to_tsvector(Augmented(k))

SameAugmentation(row) ==
    (~row.embedding.isnull /\ ~row.content_search_vector.isnull) =>
        row.embedding.input = Slice(row.content_search_vector.input, MAX_INPUT_CHARS)

Reembedders == CountingReembedders \cup {"archon_reembedding_plan"}

Range(r) == {r[f] : f \in DOMAIN r}

\* text is one non-empty literal followed by content
PrefixedBy(text, content) ==
    /\ Len(text) = Len(content) + 1
    /\ text[1].src # "content"
    /\ text[1].len > 0
    /\ SubSeq(text, 2, Len(text)) = content

\* C8 as stated: create_contextual_content of reembed_archon and of
\* archon_reembedding_plan returns, for every content (the empty string
\* included), display name and source URL, a non-empty prefix followed by the
\* content.
C8_AlwaysPrefixed ==
    (ctxOut.called /\ ctxVariant \in {"reembed_archon", "archon_reembedding_plan"}) =>
        PrefixedBy(ctxOut.text, ctxIn.content)

\* C8 as amended: create_contextual_content of reembed_archon returns for every
\* content and display name one of its seven non-empty prefixes followed by the
\* content, the default prefix when no marker occurs in the name; that of
\* archon_reembedding_plan does so only when the source URL contains 'file://',
\* and returns the content unchanged for any other URL.
C8_Prefixed ==
    ctxOut.called =>
        /\ ctxVariant = "reembed_archon" =>
               /\ PrefixedBy(ctxOut.text, ctxIn.content)
               /\ <<ctxOut.text[1]>> \in Range(reembed_archon_prefix)
               /\ (\A m \in {"PRD.md", "CLAUDE.md", "knowledge_base_roofing",
                             "roofing_industry_apis", "TWILIO", "ESIGNING"} :
                       ~In(m, ctxIn.source_display_name))
                      => <<ctxOut.text[1]>> = reembed_archon_prefix.DEFAULT
        /\ ctxVariant = "archon_reembedding_plan" =>
               IF In("file://", ctxIn.source_url)
               THEN /\ PrefixedBy(ctxOut.text, ctxIn.content)
                    /\ <<ctxOut.text[1]>> \in Range(plan_prefix)
               ELSE ctxOut.text = ctxIn.content

\* C8 witness: reembed_archon's contextualizer applied to the empty content of
\* a document no rule names returns the default prefix alone
C8_Witness ==
    /\ ctxOut.called
    /\ ctxVariant = "reembed_archon"
    /\ ctxIn.content = <<>>
    /\ ctxIn.source_display_name = <<"notes">>
    /\ ctxOut.text = reembed_archon_prefix.DEFAULT

\* the markers in the order the claim gives
RuleOrder == <<"PRD.md", "CLAUDE.md", "knowledge_base_roofing", "roofing_industry_apis",
               "TWILIO", "ESIGNING">>

\* the rules among the first n whose marker occurs in the name
Matching(name, n) == {r \in 1..n : In(RuleOrder[r], name)}

\* the earliest of them, 0 when there is none
Earliest(name, n) ==
    IF Matching(name, n) = {} THEN 0
    ELSE CHOOSE r \in Matching(name, n) : \A q \in Matching(name, n) : r <= q

\* the literal each rule of reembed_archon puts before the content
ArchonTemplate ==
    <<reembed_archon_prefix.PRD, reembed_archon_prefix.CLAUDE, reembed_archon_prefix.KB,
      reembed_archon_prefix.APIS, reembed_archon_prefix.TWILIO, reembed_archon_prefix.ESIGNING>>

\* the literal each rule of create_MAXIMUM_contextual_content puts before the content
MaximumTemplate ==
    <<fix_search_keywords.PRD, fix_search_keywords.CLAUDE, fix_search_keywords.KB,
      fix_search_keywords.APIS>>

\* the literal p occurs in text
Appears(p, text) == \E j \in 1..Len(text) : <<text[j]>> = p

\* C9: the rules are tried in the order PRD.md, CLAUDE.md, knowledge_base_roofing,
\* roofing_industry_apis, (TWILIO, ESIGNING), default and one template is
\* applied: the result carries the literal of the earliest rule whose marker
\* occurs in the display name (the default literal when none does) and the
\* literal of no other rule.
C9_PriorityOrder ==
    ctxOut.called =>
        /\ ctxVariant = "reembed_archon" =>
               LET w == Earliest(ctxIn.source_display_name, 6)
               IN  /\ ctxOut.text = (IF w = 0 THEN reembed_archon_prefix.DEFAULT
                                     ELSE ArchonTemplate[w]) \o ctxIn.content
                   /\ \A r \in 1..6 : r # w => ~Appears(ArchonTemplate[r], ctxOut.text)
                   /\ w # 0 => ~Appears(reembed_archon_prefix.DEFAULT, ctxOut.text)
        /\ ctxVariant = "fix_search_properly_final" =>
               LET w == Earliest(ctxIn.source_display_name, 4)
               IN  /\ w # 0 => /\ Appears(MaximumTemplate[w], ctxOut.text)
                               /\ EndsWith(ctxOut.text, ctxIn.content \o TemplateTail)
                   /\ w = 0 => ctxOut.text = base_context \o Lit(" ", 1) \o ctxIn.content
                   /\ \A r \in 1..4 : r # w => ~Appears(MaximumTemplate[r], ctxOut.text)

\* C9 witness: a display name with 'CLAUDE.md' before 'PRD.md' gets the PRD prefix
C9_Witness ==
    /\ ctxOut.called
    /\ ctxVariant = "reembed_archon"
    /\ ctxIn.source_display_name = <<"CLAUDE.md", "PRD.md">>
    /\ StartsWith(ctxOut.text, reembed_archon_prefix.PRD)

\* p is t with only trailing characters removed
LeadingPart(p, t) ==
    /\ Len(p) <= Len(t)
    /\ \A j \in 1..Len(p) :
           IF j < Len(p) THEN p[j] = t[j]
           ELSE /\ p[j].src = t[j].src /\ p[j].id = t[j].id /\ p[j].off = t[j].off
                /\ p[j].len <= t[j].len
    /\ StrLen(p) <= StrLen(t)

\* the literals an augmented text has before the content
RECURSIVE LeadingLiterals(_)
LeadingLiterals(t) ==
    IF t = <<>> \/ Head(t).src = "content" THEN <<>>
    ELSE <<Head(t)>> \o LeadingLiterals(Tail(t))

\* C11: for every contextualizer whose text goes through the [:8000] slice,
\* every category and every content length, the text sent to the provider has
\* at most 8000 characters, starts with the complete literals the template
\* puts before the content, and is the augmented text with only trailing
\* characters removed (none when it has at most 8000 characters).
C11_TruncationKeepsPrefix ==
    pc = "embedded" =>
        /\ ~embedding.isnull
        /\ StrLen(embedding.input) <= MAX_INPUT_CHARS
        /\ LeadingLiterals(ctxOut.text) # <<>>
        /\ StartsWith(embedding.input, LeadingLiterals(ctxOut.text))
        /\ LeadingPart(embedding.input, ctxOut.text)
        /\ StrLen(embedding.input) = IF StrLen(ctxOut.text) <= MAX_INPUT_CHARS
                                     THEN StrLen(ctxOut.text) ELSE MAX_INPUT_CHARS

\* C11 witness: create_AGGRESSIVE_contextual_content on a long PRD chunk: the
\* slice cut the content and the template's tail, the prefix is whole
C11_Witness ==
    /\ pc = "embedded"
    /\ ctxVariant = "fix_embeddings_properly"
    /\ ctxIn.source_display_name = <<"PRD.md">>
    /\ StrLen(ctxOut.text) > MAX_INPUT_CHARS
    /\ StrLen(embedding.input) = MAX_INPUT_CHARS
    /\ embedding.input[1] = fix_embeddings_prefix.PRD[1]
    /\ ~EndsWith(embedding.input, TemplateTail)

C13_ThrottledCalls ==
    (pc = "embed" /\ script \in {"reembed_archon", "test_reembed_simple",
                                 "fix_search_properly_final"}) =>
        /\ i = 1 => sinceCall = "none"
        /\ sinceCall # "call"

C15_DimensionMismatchAborts ==
    (script = "reembed_archon" /\ Dimension(EMBEDDING_MODEL) # D) =>
        /\ \A k \in ChunkIds : ~store[k].embedding.isnull => store[k].embedding.dims = D
        /\ ~(lastCall.returned = "vector" /\ pc \in {"ctx", "embed"})

\* the ids of a chunk list, in its order
IdsInOrder(list) == [j \in 1..Len(list) |-> list[j].id]

\* C16: within one invocation the chunks are processed strictly in the order
\* of the fetched list: the chunks that entered the loop are the first i of
\* the list, in its order; while chunk i is in progress every earlier chunk
\* has had its outcome counted and the statements in flight are those of
\* chunk i; and a second invocation over the store the first one fetched
\* from, left unchanged, processes the chunks in the order of the first.
C16_StableOrder ==
    /\ attempted = IdsInOrder(SubSeq(chunks, 1, i))
    /\ Running => /\ \A j \in 1..Len(txn) : txn[j].id = Cur.id
                  /\ script # "archon_reembedding_plan" => success + failed = i - 1
    /\ (rerun /\ pc # "start" /\ afterFirst.store = store0) =>
           IdsInOrder(chunks) = afterFirst.order


\* the batch was stopped from outside while chunk i was in progress
Interrupted == pc = "interrupted" /\ script = PairWriter

\* C17: external cancellation of a running fix_everything batch takes effect
\* only between chunks: when the batch stops because of cancellation no chunk
\* is in progress (nothing contextualized or embedded is in hand and no
\* statement is pending), and every chunk is either fully written (embedding
\* and lexical vector committed) or untouched.
C17_CancelBetweenChunks ==
    Interrupted =>
        /\ contextual_content = NoText /\ embedding = NULL /\ txn = <<>>
        /\ \A k \in ChunkIds : BothPrevious(k) \/ BothNew(k)

\* C17 as amended: cancellation takes effect at whatever statement the script
\* is executing, mid-chunk included; whenever the batch stops because of
\* cancellation every chunk is either fully written or untouched, the chunks
\* acknowledged before are fully written, and every chunk other than the one
\* in progress that was not acknowledged is untouched.
C17_CancelAtomic ==
    Interrupted =>
        /\ \A k \in ChunkIds : BothPrevious(k) \/ BothNew(k)
        /\ \A k \in Ids(acked) : BothNew(k)
        /\ \A k \in ChunkIds \ (Ids(acked) \cup {Cur.id}) : BothPrevious(k)

\* C17 witness: the batch is stopped after the first UPDATE of the second
\* chunk and before the second, the first chunk being fully written
C17_Witness ==
    /\ Interrupted
    /\ i = 2
    /\ Len(txn) = 1
    /\ txn[1].column = "embedding"
    /\ Ids(acked) = {chunks[1].id}
    /\ Cur.id # chunks[1].id
    /\ BothNew(chunks[1].id)
    /\ ~BothPrevious(chunks[1].id)


\* no row of the table has an embedding
NoEmbeddedChunk == Eligible(store) = {}

\* C18: enhanced_rag_search(query, match_count), once it holds the query
\* embedding, returns the empty list and raises no error whenever
\* match_count <= 0 (negative values included) or no row has an embedding.
C18_EmptyNotError ==
    (searchPc \in {"rerank", "returned", "select raised"} /\ (match_count <= 0 \/ NoEmbeddedChunk)) =>
        /\ searchPc # "select raised"
        /\ candidates = <<>>
        /\ searchPc = "returned" => reranked = <<>>


\* the candidate query has returned
Selected == searchPc \in {"rerank", "returned"}

\* C19: for match_count >= 1 the candidate pool handed to the reranker holds
\* min(max(3 * match_count, match_count), number of rows with an embedding)
\* rows, each an eligible row and none twice, so it is never smaller than
\* min(match_count, number of eligible rows).
C19_Overfetch ==
    (Selected /\ match_count >= 1) =>
        /\ Len(candidates) = Min(Max(3 * match_count, match_count), Cardinality(Eligible(store)))
        /\ Ids(candidates) \subseteq Eligible(store)
        /\ Cardinality(Ids(candidates)) = Len(candidates)
        /\ Len(candidates) >= Min(match_count, Cardinality(Eligible(store)))

\* C19 witness: more eligible rows than the LIMIT, the pool is cut to 3 * match_count
C19_Witness ==
    /\ Selected
    /\ match_count >= 1
    /\ Cardinality(Eligible(store)) > 3 * match_count
    /\ Len(candidates) = 3 * match_count
    /\ Len(candidates) > match_count

\* the position of row k in the candidate pool
Position(k) == CHOOSE j \in 1..Len(candidates) : candidates[j] = k

\* row k belongs to a file:// source
Boosted(k) == Sources[store[k].source_id].source_url[1] = "file://"

\* C20: any two rows of the candidate pool with the same raw distance, at
\* every distance value and 0 included, one of a file:// source and one of
\* another source, are ordered with the file:// row first.
C20_BoostDecidesTies ==
    Selected =>
        \A a, b \in Ids(candidates) :
            (distance[a] = distance[b] /\ Boosted(a) /\ ~Boosted(b)) => Position(a) < Position(b)


\* the sort key of the candidate at position j of the pool
KeyAt(j) == BoostedDistance(store, distance)[candidates[j]]

\* C21: the candidate pool is sorted by boost-adjusted distance ascending,
\* candidates with equal boost-adjusted distance are in the order of their
\* chunk identifiers, and every sequence the candidate query may return for
\* this query over this store is the sequence it returned, so that two calls
\* return the same candidates.
C21_DeterministicOrder ==
    Selected =>
        /\ \A a, b \in 1..Len(candidates) : a < b => KeyAt(a) <= KeyAt(b)
        /\ \A a, b \in 1..Len(candidates) :
               (a < b /\ KeyAt(a) = KeyAt(b)) => candidates[a] < candidates[b]
        /\ ranked_results(store, distance, match_count) = {candidates}


\* rerank_results has returned
Returned == searchPc = "returned"

\* the document carries no rerank_score
Unscored(doc) == "rerank_score" \notin DOMAIN doc

\* C22: when the reranking provider call fails, the list is non-empty and
\* top_n >= 1, rerank_results returns exactly the first min(top_n, number of
\* documents) documents, in their input order, unchanged and without a
\* rerank score, and so never the empty list; no state of the call is a raise.
C22_GracefulDegradation ==
    (Returned /\ response.called /\ response.raised /\ top_n >= 1) =>
        /\ documents # <<>>
        /\ reranked = SubSeq(documents, 1, Min(top_n, Len(documents)))
        /\ \A j \in 1..Len(reranked) : Unscored(reranked[j])
        /\ reranked # <<>>

\* C22 witness: the call failed with more documents than top_n, and the
\* first top_n came back
C22_Witness ==
    /\ Returned
    /\ response.called /\ response.raised
    /\ top_n >= 1
    /\ Len(documents) > top_n
    /\ Len(reranked) = top_n
    /\ reranked[1] = documents[1]

\* C23: rerank_results with an empty list returns the empty list and makes
\* no call to the reranking provider, for every top_n.
C23_EmptyWithoutCall ==
    (Returned /\ documents = <<>>) => (reranked = <<>> /\ ~response.called)

\* C23 witness: an empty list and a positive top_n, returned
C23_Witness ==
    /\ Returned
    /\ documents = <<>>
    /\ top_n = MaxTopN
    /\ reranked = <<>>

\* C24: on a provider response that lists (index, score) pairs,
\* rerank_results returns at most top_n documents, each a copy of an input
\* document with its score attached, no document twice, the input documents
\* left without a score, in non-increasing order of rerank score.
C24_RerankedOrder ==
    (Returned /\ response.called /\ ~response.raised) =>
        /\ Len(reranked) <= top_n
        /\ \A j \in 1..Len(reranked) :
               \E d \in 1..Len(documents), sc \in Scores : reranked[j] = WithScore(documents[d], sc)
        /\ \A a, b \in 1..Len(reranked) : a # b => reranked[a].id # reranked[b].id
        /\ \A d \in 1..Len(documents) : Unscored(documents[d])
        /\ \A a, b \in 1..Len(reranked) :
               a < b => reranked[a].rerank_score >= reranked[b].rerank_score


\* a store write was issued: a statement executed or a row changed
WriteIssued == txn # <<>> \/ store # store0

\* C25: in every script that asks for confirmation an answer other than
\* 'y'/'Y' ends the run with no store write and no embedding call, and every
\* script that writes to the store has passed such a gate, with the answer
\* 'y' or 'Y', before its first write.
C25_ConfirmationGate ==
    /\ (script \in GatedScripts /\ confirmation \notin {"none", "y"}) =>
           /\ pc = "cancelled"
           /\ ~WriteIssued
           /\ lastCall = NoCall
           /\ attempted = <<>>
    /\ WriteIssued => confirmation = "y"


\* the step in which embedding generation fails for the chunk in progress
EmbeddingFailedStep == pc = "embed" /\ pc' \notin {"embed", "update", "interrupted"}

\* while a write for the chunk in progress is being issued
Writing == pc \in {"update", "update2", "commit", "rollback"}

\* C26: in the scripts that count, the chunks counted as succeeded are those
\* whose update the store acknowledged, each with an embedding that was
\* generated; a write is only ever issued with a generated embedding in hand;
\* and the step in which embedding generation fails issues no store write,
\* leaves the table as it was and counts the chunk as failed.
C26_SuccessMeansWritten ==
    /\ [](script \in CountingReembedders =>
            /\ success = Len(acked)
            /\ \A k \in Ids(acked) : store[k].embedding = NewEmbedding(k)
            /\ (Writing \/ txn # <<>>) => (lastCall.returned = "vector" /\ ~embedding.isnull)
            /\ \A k \in ChunkIds \ (Ids(acked) \cup Ids(attempted)) :
                   store[k].embedding = store0[k].embedding)
    /\ [][(script \in CountingReembedders /\ EmbeddingFailedStep) =>
            /\ store' = store
            /\ txn' = <<>> /\ txn = <<>>
            /\ acked' = acked
            /\ success' = success
            /\ failed' = failed + 1]_vars

\* C26 witness: a finished run in which the first chunk was written and
\* counted and embedding generation failed for the second, whose stored
\* embedding is the one it had
C26_Witness ==
    /\ pc = "done"
    /\ script \in {"reembed_archon", "fix_search_properly_final"}
    /\ Len(chunks) = 2
    /\ chunks[1].id # chunks[2].id
    /\ success = 1 /\ failed = 1
    /\ acked = <<chunks[1].id>>
    /\ lastCall.error # "none"
    /\ store[chunks[2].id].embedding = store0[chunks[2].id].embedding
    /\ store[chunks[1].id].embedding # store0[chunks[1].id].embedding


\* the scripts that build their chunk list from one GET per pattern
PatternFetchers == {"reembed_all_project_docs", "final_fix_rest_api"}

\* no value occurs twice in the sequence
NoRepeat(q) == \A a, b \in 1..Len(q) : a # b => q[a] # q[b]

\* C27: the chunk list concatenated from one result set per source-URL
\* pattern holds no chunk identifier twice, also when a source URL matches
\* more than one pattern, so that no chunk enters the loop twice in one run.
C27_NoChunkTwice ==
    script \in PatternFetchers =>
        /\ NoRepeat(IdsInOrder(chunks))
        /\ NoRepeat(attempted)


\* the scripts whose handler rolls the transaction back and goes on
RollbackScripts == {"reembed_archon", "fix_search_properly_final"}

\* C28: a store update that raises is rolled back and does not poison the
\* later chunks: at every moment of a run every chunk whose update was not
\* acknowledged holds its prior embedding and lexical vector, the
\* connection holds no statement of an earlier chunk, and every chunk
\* acknowledged, also after a failed one, holds its new embedding.
C28_RollbackIsolatesFailure ==
    (script \in RollbackScripts /\ pc # "interrupted") =>
        /\ \A k \in ChunkIds \ Ids(acked) : BothPrevious(k)
        /\ \A j \in 1..Len(txn) : Running /\ txn[j].id = Cur.id
        /\ \A k \in Ids(acked) : store[k].embedding = NewEmbedding(k)
        /\ script = PairWriter => \A k \in Ids(acked) : BothNew(k)

\* C28 witness: the update of the first chunk raised and was rolled back,
\* and the update of the second chunk was committed on the same connection
C28_Witness ==
    /\ pc = "done"
    /\ script = "reembed_archon"
    /\ Len(chunks) = 2
    /\ failLog = <<chunks[1].id>>
    /\ acked = <<chunks[2].id>>
    /\ chunks[1].id # chunks[2].id
    /\ BothPrevious(chunks[1].id)
    /\ store[chunks[2].id].embedding = NewEmbedding(chunks[2].id)
    /\ store[chunks[2].id].embedding # store0[chunks[2].id].embedding


\* the number of searchable prefixes in a stored content
PrefixCount(text) == Cardinality({j \in 1..Len(text) : text[j].src # "content"})

\* C29: final_fix_rest_api run twice over the same chunks: at every moment
\* of the second run and after it every chunk the first run updated has the
\* content the first run gave it, and no content holds the searchable
\* prefix more than once.
C29_ContentFixIdempotent ==
    (rerun /\ script = "final_fix_rest_api") =>
        /\ \A k \in afterFirst.acked : store[k].content = afterFirst.store[k].content
        /\ \A k \in ChunkIds : PrefixCount(store[k].content) <= 1


\* C30: every session that starts while the project is not initialized uses
\* the initializer prompt and every session that starts on an initialized
\* project uses the documentation prompt; so a session that starts after a
\* session ended with status "error", the project still not initialized,
\* uses the initializer prompt.
C30_PromptFollowsMarker ==
    agentPc = "session" =>
        /\ ~initialized => prompt = "initializer"
        /\ initialized => prompt = "documentation"
        /\ (status = "error" /\ ~initialized) => prompt = "initializer"


====
